---- MODULE Spec2Model ----
(***************************************************************************)
(* Adaptive-AUTOSAR: the UDS service router (ara::diag::routing) and the   *)
(* SOME/IP service discovery client state ServiceReady                     *)
(* (ara::com::someip::sd::fsm),                                            *)
(* the session identifier and the byte injection of a SOME/IP message      *)
(* (ara::com::someip), and ara::core::Optional.                            *)
(*                                                                         *)
(* Seven specifications share the module:                                  *)
(*   SpecRouter   UdsServiceRouter::Route over a registry of services      *)
(*   SpecRouterThreads  Route called from two threads, statement by        *)
(*                statement, while the registry and the offers change      *)
(*   Spec         the availability machine, one discovery event at a time  *)
(*   SpecThreads  the same machine with the lease timer's expiry running   *)
(*                on the timer thread, and the state object's destruction  *)
(*   SpecMessage  SomeIpMessage's session identifier                       *)
(*   SpecBytes    SomeIpMessage::Inject on a byte vector                   *)
(*   SpecOptional two objects of type Optional<T> and the calls on them    *)
(***************************************************************************)
EXTENDS Integers, Sequences, FiniteSets, TLC

\* ------------------------------------------------------------------ bounds
MaxCalls == 2
MaxTtl == 3
MaxBytes == 6

\* ------------------------------------------------------- program constants
cNegativeResponseSid == 127
cServiceNotSupportedNrc == 17
\* std::uint16_t mSessionId: the largest session identifier, and the one the
\* counter starts from again
SessionIdMax == 65535
SessionIdMin == 1

\* ----------------------------------------------------------- input domains
\* 8-bit service identifiers the router is asked about (an ordinary SID and
\* the top of the range), and the service objects that can be registered.
Sids == {34, 255}
Services == {1, 2}
Requests == {<<16, 1>>, <<34>>}
Metas == {"doip", "can"}
Handlers == {"h1", "h2"}
Payloads == {<<80, 1>>, <<127, 16, 34>>}
Ttls == 1..MaxTtl
\* the threads that call Route, each asking for a SID of its own
Callers == {1, 2}
\* session identifiers a message is constructed with or set to
SessionIds == {0, 1, 65534, 65535}
\* std::uint16_t values handed to Inject: 0x0000, 0x0001, 0x00ff, 0x0100,
\* 0x1234, 0x8000, 0xffff
Shorts == {0, 1, 255, 256, 4660, 32768, 65535}
\* std::uint32_t values handed to Inject, each as its upper and lower 16
\* bits: 0x00000000, 0x00000001, 0x00010000, 0x12345678, 0x80000000,
\* 0xffffffff
Integers32 == {<<0, 0>>, <<0, 1>>, <<1, 0>>, <<4660, 22136>>, <<32768, 0>>,
               <<65535, 65535>>}
\* the objects of type Optional<T> and the values of T
Objects == {"a", "b"}
Values == {0, 1, 2}
\* the content of an mValue that was default-initialised and never assigned
Indeterminate == -1

VARIABLES
    \* UdsServiceRouter
    mServices,        \* std::map<uint8_t, RoutableUdsService *>
    mOffered,         \* RoutableUdsService: the offered flag of each service
    withdrawn,        \* history: the service was offered and then withdrawn
    handleCount,      \* history: HandleMessage invocations per service
    routed,           \* history: <<>> or <<the last completed Route call>>
    \* ServiceReadyState and the machine it belongs to
    mCurrentState,    \* the machine's current state
    mActivated,       \* ServiceReadyState::mActivated
    mClientRequested, \* ServiceReadyState::mClientRequested
    Timer,            \* helper::TtlTimer: [running, ttl, mOnExpired]
    notified,         \* the last handler called mConditionVariable->notify_one()
    lastEvent,        \* history: the last event delivered and the state it met
    timerPc,          \* the timer thread: "idle" or "inCallback"
    destroyed,        \* ~ServiceReadyState() has run
    waiterPc,         \* the consumer waiting on *mConditionVariable
    \* threads inside UdsServiceRouter::Route
    calls,            \* per calling thread: its place in Route and its locals
    \* SomeIpMessage
    mSessionId,       \* std::uint16_t mSessionId
    incremented,      \* history: <<>> or <<the last IncrementSessionId call>>
    assigned,         \* history: <<>> or <<the constructor or SetSessionId
                      \* call and the session id it was given>>, when that
                      \* was the last call
    \* SomeIpMessage::Inject
    vector,           \* std::vector<std::uint8_t> the values are injected into
    injected,         \* history: <<>> or <<the last Inject call>>
    \* ara::core::Optional<T>
    optionals,        \* per object: [mValue, mHasValue]
    written,          \* history: per object, the last call that wrote it
    lastCall          \* history: <<>> or <<the last call on an Optional>>

routerVars == <<mServices, mOffered, withdrawn, handleCount, routed>>
fsmVars == <<mCurrentState, mActivated, mClientRequested, Timer, notified,
             lastEvent, timerPc, destroyed, waiterPc>>
callVars == <<calls>>
messageVars == <<mSessionId, incremented, assigned>>
byteVars == <<vector, injected>>
optionalVars == <<optionals, written, lastCall>>
vars == <<mServices, mOffered, withdrawn, handleCount, routed,
          mCurrentState, mActivated, mClientRequested, Timer, notified,
          lastEvent, timerPc, destroyed, waiterPc,
          calls, mSessionId, incremented, assigned,
          vector, injected, optionals, written, lastCall>>

\* ======================================================= UdsServiceRouter

\* RoutableUdsService::IsOffered of the service object svc.
IsOffered(svc) == mOffered[svc]

\* "the service has been offered, so the handler of an earlier call is reused"
ShouldRoute_Sticky(sid) ==
    /\ sid \in DOMAIN mServices
    /\ (IsOffered(mServices[sid]) \/ handleCount[mServices[sid]] > 0)

\* the condition without the IsOffered() conjunct
ShouldRoute_NoOfferCheck(sid) == sid \in DOMAIN mServices

\* _serviceIterator != mServices.end() && _serviceIterator->second->IsOffered()
ShouldRoute(sid) ==
    /\ sid \in DOMAIN mServices
    /\ IsOffered(mServices[sid])

\* the response without the echoed SID
NegativeResponse_NoSid(sid) ==
    <<cNegativeResponseSid, cServiceNotSupportedNrc>>

\* _operationOutput.responseData = {cNegativeResponseSid, sid, cServiceNotSupportedNrc}
NegativeResponse(sid) ==
    <<cNegativeResponseSid, sid, cServiceNotSupportedNrc>>

\* std::promise whose value is set before its future is returned: a future
\* made by the router itself (producer 0), already completed.
CompletedFuture(responseData) ==
    [producer |-> 0, ready |-> TRUE, responseData |-> responseData]

\* RoutableUdsService::HandleMessage: the future the service hands back. The
\* service decides whether it is completed yet and what it carries.
HandleMessage(svc, ready, responseData) ==
    [producer |-> svc, ready |-> ready, responseData |-> responseData]

\* a router that waits for the service and hands back a future of its own
ForwardedResult_Rewrapped(future) ==
    CompletedFuture(future.responseData)

\* return _serviceIterator->second->HandleMessage(...): the service's future
\* is the value of Route.
ForwardedResult(future) == future

\* The arguments HandleMessage is called with.
ForwardedCall(svc, requestData, metaInfo, cancellationHandler) ==
    [service |-> svc,
     requestData |-> requestData,
     metaInfo |-> metaInfo,
     cancellationHandler |-> cancellationHandler]

\* What a Route call found when it was issued.
RouteSnapshot(sid, requestData, metaInfo, cancellationHandler) ==
    LET reg == sid \in DOMAIN mServices
        svc == IF reg THEN mServices[sid] ELSE 0
    IN [sid |-> sid,
        requestData |-> requestData,
        metaInfo |-> metaInfo,
        cancellationHandler |-> cancellationHandler,
        registered |-> reg,
        service |-> svc,
        offered |-> reg /\ mOffered[svc],
        withdrawn |-> reg /\ withdrawn[svc]]

\* UdsServiceRouter::Route
Route(sid, requestData, metaInfo, cancellationHandler) ==
    LET snap == RouteSnapshot(sid, requestData, metaInfo, cancellationHandler)
    IN
    /\ IF ShouldRoute(sid)
       THEN LET svc == mServices[sid] IN
            /\ handleCount[svc] < MaxCalls
            /\ \E ready \in BOOLEAN, responseData \in Payloads :
                 LET future == HandleMessage(svc, ready, responseData) IN
                 /\ handleCount' = [handleCount EXCEPT ![svc] = @ + 1]
                 /\ routed' =
                      <<[call |-> snap,
                         invocations |->
                             <<ForwardedCall(svc, requestData, metaInfo,
                                             cancellationHandler)>>,
                         returned |-> <<future>>,
                         result |-> ForwardedResult(future)]>>
       ELSE /\ routed' =
                 <<[call |-> snap,
                    invocations |-> <<>>,
                    returned |-> <<>>,
                    result |-> CompletedFuture(NegativeResponse(sid))]>>
            /\ UNCHANGED handleCount
    /\ UNCHANGED <<mServices, mOffered, withdrawn>>
    /\ UNCHANGED <<fsmVars, callVars, messageVars, byteVars, optionalVars>>

\* Registration of a service under its SID (done by the router's owner).
AddService(sid, svc) ==
    /\ mServices' = [s \in DOMAIN mServices \cup {sid} |->
                        IF s = sid THEN svc ELSE mServices[s]]
    /\ mServices' # mServices
    /\ UNCHANGED <<mOffered, withdrawn, handleCount, routed>>
    /\ UNCHANGED <<fsmVars, callVars, messageVars, byteVars, optionalVars>>

\* Removal of a SID from the registry.
RemoveService(sid) ==
    /\ sid \in DOMAIN mServices
    /\ mServices' = [s \in DOMAIN mServices \ {sid} |-> mServices[s]]
    /\ UNCHANGED <<mOffered, withdrawn, handleCount, routed>>
    /\ UNCHANGED <<fsmVars, callVars, messageVars, byteVars, optionalVars>>

\* RoutableUdsService::Offer
Offer(svc) ==
    /\ ~mOffered[svc]
    /\ mOffered' = [mOffered EXCEPT ![svc] = TRUE]
    /\ withdrawn' = [withdrawn EXCEPT ![svc] = FALSE]
    /\ UNCHANGED <<mServices, handleCount, routed>>
    /\ UNCHANGED <<fsmVars, callVars, messageVars, byteVars, optionalVars>>

\* RoutableUdsService::StopOffer
StopOffer(svc) ==
    /\ mOffered[svc]
    /\ mOffered' = [mOffered EXCEPT ![svc] = FALSE]
    /\ withdrawn' = [withdrawn EXCEPT ![svc] = TRUE]
    /\ UNCHANGED <<mServices, handleCount, routed>>
    /\ UNCHANGED <<fsmVars, callVars, messageVars, byteVars, optionalVars>>

EmptyRegistry == [s \in {} |-> 0]

InitRouter ==
    /\ mServices = EmptyRegistry
    /\ mOffered = [svc \in Services |-> FALSE]
    /\ withdrawn = [svc \in Services |-> FALSE]
    /\ handleCount = [svc \in Services |-> 0]
    /\ routed = <<>>

InitFsm ==
    /\ mCurrentState = "Stopped"
    /\ mActivated = FALSE
    /\ mClientRequested = TRUE
    /\ Timer = [running |-> FALSE, ttl |-> 0, mOnExpired |-> "none"]
    /\ notified = FALSE
    /\ lastEvent = [name |-> "none", from |-> "Stopped", requested |-> TRUE,
                    ttl |-> 0]
    /\ timerPc = "idle"
    /\ destroyed = FALSE
    /\ waiterPc = "idle"

\* No thread is inside Route.
InitCalls ==
    calls = [c \in Callers |->
                [pc |-> "idle", iterator |-> 0, torn |-> FALSE,
                 expected |-> 0, ownChanged |-> FALSE, result |-> <<>>]]

\* A message constructed with the default session identifier.
InitMessage ==
    /\ mSessionId = 1
    /\ incremented = <<>>
    /\ assigned = <<[call |-> "SomeIpMessage", sessionId |-> 1]>>

\* An empty byte vector.
InitBytes ==
    /\ vector = <<>>
    /\ injected = <<>>

\* Optional(): mHasValue is false and mValue is default-initialised.
InitOptionals ==
    /\ optionals = [o \in Objects |->
                       [mValue |-> Indeterminate, mHasValue |-> FALSE]]
    /\ written = [o \in Objects |-> "Optional"]
    /\ lastCall = <<>>

Init ==
    /\ InitRouter
    /\ InitFsm
    /\ InitCalls
    /\ InitMessage
    /\ InitBytes
    /\ InitOptionals

NextRouter ==
    \/ \E sid \in Sids, requestData \in Requests, metaInfo \in Metas,
          cancellationHandler \in Handlers :
           Route(sid, requestData, metaInfo, cancellationHandler)
    \/ \E sid \in Sids, svc \in Services : AddService(sid, svc)
    \/ \E sid \in Sids : RemoveService(sid)
    \/ \E svc \in Services : Offer(svc)
    \/ \E svc \in Services : StopOffer(svc)

SpecRouter == Init /\ [][NextRouter]_vars

\* ------------------------------------------- Route called from two threads
\* Route takes no lock and UdsServiceRouter has no mutex member, so the
\* statements of a call interleave with the other thread's call and with the
\* owner's changes of the registry and of the offers.

\* The SID each calling thread asks for.
CallerSid(c) == IF c = 1 THEN 34 ELSE 255

\* The producer of the future a Route call on sid yields when nothing else
\* runs: the registered service when it is offered, else the router itself (0).
RouteAlone(sid) == IF ShouldRoute(sid) THEN mServices[sid] ELSE 0

\* The thread is between the entry of Route and its return.
InFlight(c) == calls[c].pc \in {"find", "found", "forward"}

\* mServices.find(sid) of a thread while no other thread writes the map: the
\* registered service, or 0 for mServices.end().
Lookup(sid) == IF sid \in DOMAIN mServices THEN mServices[sid] ELSE 0

\* The iterators mServices.find(sid) can come back with. A write of the map
\* during the find is a data race on std::map: the find may have followed
\* nodes of the tree as they were relinked, and ends at any node or at end().
FindOutcomes(c) ==
    IF calls[c].torn
    THEN Services \cup {0}
    ELSE {Lookup(CallerSid(c))}

\* The registry or an offer changes: a find in progress is torn by a write of
\* the map, and a call in flight whose own SID or service is touched is
\* marked, as its result may differ from the one it would have had alone.
Disturbed(tearing, sids, svcs) ==
    [c \in Callers |->
        IF InFlight(c)
        THEN [calls[c] EXCEPT
                !.torn = @ \/ (tearing /\ calls[c].pc = "find"),
                !.ownChanged = \/ @
                               \/ CallerSid(c) \in sids
                               \/ Lookup(CallerSid(c)) \in svcs
                               \/ calls[c].iterator \in svcs]
        ELSE calls[c]]

\* Route is entered (line 99) and mServices.find(sid) begins (line 105).
RouteEnter(c) ==
    /\ calls[c].pc = "idle"
    /\ calls' = [calls EXCEPT ![c] =
                    [pc |-> "find", iterator |-> 0, torn |-> FALSE,
                     expected |-> RouteAlone(CallerSid(c)),
                     ownChanged |-> FALSE, result |-> <<>>]]
    /\ UNCHANGED <<routerVars, fsmVars, messageVars, byteVars, optionalVars>>

\* mServices.find(sid) comes back with _serviceIterator (line 105).
RouteFind(c) ==
    /\ calls[c].pc = "find"
    /\ \E it \in FindOutcomes(c) :
         calls' = [calls EXCEPT ![c].pc = "found", ![c].iterator = it]
    /\ UNCHANGED <<routerVars, fsmVars, messageVars, byteVars, optionalVars>>

\* The condition of line 107 is evaluated; when it fails the negative
\* response is built and returned (lines 115-126).
RouteCheck(c) ==
    /\ calls[c].pc = "found"
    /\ LET it == calls[c].iterator IN
       IF it # 0 /\ IsOffered(it)
       THEN calls' = [calls EXCEPT ![c].pc = "forward"]
       ELSE calls' = [calls EXCEPT
                         ![c].pc = "done",
                         ![c].result =
                             <<CompletedFuture(
                                   NegativeResponse(CallerSid(c)))>>]
    /\ UNCHANGED <<routerVars, fsmVars, messageVars, byteVars, optionalVars>>

\* _serviceIterator->second->HandleMessage(...) and the return of its future
\* (lines 109-112).
RouteForward(c) ==
    /\ calls[c].pc = "forward"
    /\ LET svc == calls[c].iterator
           future == HandleMessage(svc, TRUE, <<80, 1>>)
       IN /\ calls' = [calls EXCEPT ![c].pc = "done",
                                    ![c].result = <<ForwardedResult(future)>>]
          /\ handleCount' = [handleCount EXCEPT ![svc] = @ + 1]
    /\ UNCHANGED <<mServices, mOffered, withdrawn, routed>>
    /\ UNCHANGED <<fsmVars, messageVars, byteVars, optionalVars>>

\* The owner registers a service while threads may be inside Route.
AddServiceDuringRoute(sid, svc) ==
    /\ mServices' = [s \in DOMAIN mServices \cup {sid} |->
                        IF s = sid THEN svc ELSE mServices[s]]
    /\ mServices' # mServices
    /\ calls' = Disturbed(TRUE, {sid}, {})
    /\ UNCHANGED <<mOffered, withdrawn, handleCount, routed>>
    /\ UNCHANGED <<fsmVars, messageVars, byteVars, optionalVars>>

\* The owner removes a SID while threads may be inside Route.
RemoveServiceDuringRoute(sid) ==
    /\ sid \in DOMAIN mServices
    /\ mServices' = [s \in DOMAIN mServices \ {sid} |-> mServices[s]]
    /\ calls' = Disturbed(TRUE, {sid}, {})
    /\ UNCHANGED <<mOffered, withdrawn, handleCount, routed>>
    /\ UNCHANGED <<fsmVars, messageVars, byteVars, optionalVars>>

\* RoutableUdsService::Offer while threads may be inside Route.
OfferDuringRoute(svc) ==
    /\ ~mOffered[svc]
    /\ mOffered' = [mOffered EXCEPT ![svc] = TRUE]
    /\ withdrawn' = [withdrawn EXCEPT ![svc] = FALSE]
    /\ calls' = Disturbed(FALSE, {}, {svc})
    /\ UNCHANGED <<mServices, handleCount, routed>>
    /\ UNCHANGED <<fsmVars, messageVars, byteVars, optionalVars>>

\* RoutableUdsService::StopOffer while threads may be inside Route.
StopOfferDuringRoute(svc) ==
    /\ mOffered[svc]
    /\ mOffered' = [mOffered EXCEPT ![svc] = FALSE]
    /\ withdrawn' = [withdrawn EXCEPT ![svc] = TRUE]
    /\ calls' = Disturbed(FALSE, {}, {svc})
    /\ UNCHANGED <<mServices, handleCount, routed>>
    /\ UNCHANGED <<fsmVars, messageVars, byteVars, optionalVars>>

NextRouterThreads ==
    \/ \E c \in Callers : RouteEnter(c)
    \/ \E c \in Callers : RouteFind(c)
    \/ \E c \in Callers : RouteCheck(c)
    \/ \E c \in Callers : RouteForward(c)
    \/ \E sid \in Sids, svc \in Services : AddServiceDuringRoute(sid, svc)
    \/ \E sid \in Sids : RemoveServiceDuringRoute(sid)
    \/ \E svc \in Services : OfferDuringRoute(svc)
    \/ \E svc \in Services : StopOfferDuringRoute(svc)

SpecRouterThreads == Init /\ [][NextRouterThreads]_vars

\* ========================================================== SomeIpMessage

\* the counter wrapping as the 16-bit integer does
IncrementSessionId_WrapsToZero(v) ==
    [sessionId |-> (v + 1) % (SessionIdMax + 1),
     wrapped |-> v = SessionIdMax]

\* SomeIpMessage::IncrementSessionId on the session identifier v: the new
\* identifier and the value returned.
IncrementSessionId(v) ==
    IF v = SessionIdMax
    THEN [sessionId |-> SessionIdMin, wrapped |-> TRUE]
    ELSE [sessionId |-> (v + 1) % (SessionIdMax + 1), wrapped |-> FALSE]

\* SomeIpMessage::SomeIpMessage: a message constructed with an explicit
\* session identifier takes the place of the current one.
Construct(sessionId) ==
    /\ mSessionId' = sessionId
    /\ incremented' = <<>>
    /\ assigned' = <<[call |-> "SomeIpMessage", sessionId |-> sessionId]>>
    /\ UNCHANGED <<routerVars, fsmVars, callVars, byteVars, optionalVars>>

\* a setter that turns the non-active identifier 0 into the first active one
SetSessionId_ZeroBecomesOne(sessionId) ==
    /\ mSessionId' = IF sessionId = 0 THEN SessionIdMin ELSE sessionId
    /\ incremented' = <<>>
    /\ assigned' = <<[call |-> "SetSessionId", sessionId |-> sessionId]>>
    /\ UNCHANGED <<routerVars, fsmVars, callVars, byteVars, optionalVars>>

\* SomeIpMessage::SetSessionId
SetSessionId(sessionId) ==
    /\ mSessionId' = sessionId
    /\ incremented' = <<>>
    /\ assigned' = <<[call |-> "SetSessionId", sessionId |-> sessionId]>>
    /\ UNCHANGED <<routerVars, fsmVars, callVars, byteVars, optionalVars>>

\* A call of IncrementSessionId on the message.
Increment ==
    /\ LET r == IncrementSessionId(mSessionId) IN
       /\ mSessionId' = r.sessionId
       /\ incremented' = <<[before |-> mSessionId,
                            after |-> r.sessionId,
                            wrapped |-> r.wrapped]>>
    /\ assigned' = <<>>
    /\ UNCHANGED <<routerVars, fsmVars, callVars, byteVars, optionalVars>>

NextMessage ==
    \/ \E sessionId \in SessionIds : Construct(sessionId)
    \/ \E sessionId \in SessionIds : SetSessionId(sessionId)
    \/ Increment

SpecMessage == Init /\ [][NextMessage]_vars

\* ------------------------------------------------- SomeIpMessage::Inject

\* static_cast<std::uint8_t>(value >> shift)
ByteOf(value, shift) == (value \div (2 ^ shift)) % 256

\* the bytes pushed in the order of the host, least significant first
Inject16_LittleEndian(vec, value) ==
    vec \o <<ByteOf(value, 0), ByteOf(value, 8)>>

\* Inject(vector, std::uint16_t value): the vector it leaves.
Inject16(vec, value) ==
    vec \o <<ByteOf(value, 8), ByteOf(value, 0)>>

\* Inject(vector, std::uint32_t value): the vector it leaves; the value is
\* held as its upper and lower 16 bits.
Inject32(vec, value) ==
    vec \o <<ByteOf(value[1], 8), ByteOf(value[1], 0),
             ByteOf(value[2], 8), ByteOf(value[2], 0)>>

\* A call of Inject with a short value.
InjectShort(value) ==
    /\ Len(vector) + 2 <= MaxBytes
    /\ vector' = Inject16(vector, value)
    /\ injected' = <<[width |-> 2, value |-> <<value>>, before |-> vector]>>
    /\ UNCHANGED <<routerVars, fsmVars, callVars, messageVars, optionalVars>>

\* A call of Inject with an integer value.
InjectInteger(value) ==
    /\ Len(vector) + 4 <= MaxBytes
    /\ vector' = Inject32(vector, value)
    /\ injected' = <<[width |-> 4, value |-> value, before |-> vector]>>
    /\ UNCHANGED <<routerVars, fsmVars, callVars, messageVars, optionalVars>>

NextBytes ==
    \/ \E value \in Shorts : InjectShort(value)
    \/ \E value \in Integers32 : InjectInteger(value)

SpecBytes == Init /\ [][NextBytes]_vars

\* ================================================== ara::core::Optional<T>
\* An Optional is the record of its members [mValue, mHasValue]; a member
\* function is a function of the object (self) and of its argument.

\* Optional(const T &value), Optional(T &&value)
ValueConstructor(value) ==
    [mValue |-> value, mHasValue |-> TRUE]

\* Optional(const Optional &other), Optional(Optional &&other): mValue is
\* default-initialised and assigned only when other has a value.
CopyConstructor(other) ==
    [mValue |-> IF other.mHasValue THEN other.mValue ELSE Indeterminate,
     mHasValue |-> other.mHasValue]

\* the conversion of a bool to T
BoolToT(flag) == IF flag THEN 1 ELSE 0

\* operator=(const Optional &other): mValue = other.mHasValue when other has
\* a value, then mHasValue = mHasValue.
CopyAssignment(self, other) ==
    LET s1 == IF other.mHasValue
              THEN [self EXCEPT !.mValue = BoolToT(other.mHasValue)]
              ELSE self
    IN [s1 EXCEPT !.mHasValue = s1.mHasValue]

\* operator=(Optional &&other): mValue = std::move(other.mHasValue) when
\* other has a value, then mHasValue = mHasValue.
MoveAssignment(self, other) ==
    LET s1 == IF other.mHasValue
              THEN [self EXCEPT !.mValue = BoolToT(other.mHasValue)]
              ELSE self
    IN [s1 EXCEPT !.mHasValue = s1.mHasValue]

\* operator=(const U &value), operator=(U &&value)
ValueAssignment(self, value) ==
    [self EXCEPT !.mValue = value, !.mHasValue = TRUE]

\* Swap: <<the object, the other one>> after the call
Swap(self, other) ==
    IF self.mHasValue /\ other.mHasValue
    THEN <<[self EXCEPT !.mValue = other.mValue],
           [other EXCEPT !.mValue = self.mValue]>>
    ELSE IF self.mHasValue /\ ~other.mHasValue
    THEN <<[self EXCEPT !.mHasValue = FALSE],
           [other EXCEPT !.mValue = self.mValue, !.mHasValue = TRUE]>>
    ELSE IF ~self.mHasValue /\ other.mHasValue
    THEN <<[self EXCEPT !.mValue = other.mValue, !.mHasValue = TRUE],
           [other EXCEPT !.mHasValue = FALSE]>>
    ELSE <<self, other>>

\* Reset
Reset(self) ==
    [self EXCEPT !.mHasValue = FALSE]

\* HasValue
HasValue(self) == self.mHasValue

\* What a read of the value comes back with: a value that is returned, or
\* throw std::runtime_error("Optional contains no value.")
Returned(value) == [threw |-> FALSE, value |-> value]
Thrown == [threw |-> TRUE, value |-> Indeterminate]
\* a call that hands nothing back has returned
Done == [threw |-> FALSE, value |-> Indeterminate]

\* a read that hands out whatever mValue holds when there is no value
Value_ReturnsStale(self) ==
    Returned(self.mValue)

\* Value() const &, Value() &&
Value(self) ==
    IF self.mHasValue THEN Returned(self.mValue) ELSE Thrown

\* operator*() const &, operator*() &&
Dereference(self) ==
    IF self.mHasValue THEN Returned(self.mValue) ELSE Thrown

\* operator->(): what is read through the pointer that comes back. With a
\* value the function evaluates &mValue; and flows off its end without a
\* return statement, which is undefined: the caller gets the pointer to
\* mValue or any other pointer.
Arrow(self) ==
    IF self.mHasValue
    THEN {Returned(v) : v \in Values \cup {Indeterminate}}
    ELSE {Thrown}

\* operator==(const Optional<T> &lhs, const Optional<T> &rhs)
Equals(lhs, rhs) ==
    IF HasValue(lhs) /\ HasValue(rhs)
    THEN Value(lhs).value = Value(rhs).value
    ELSE IF ~HasValue(lhs) /\ ~HasValue(rhs)
    THEN TRUE
    ELSE FALSE

\* A call on the object o has come back: the objects take the values it
\* left them with.
Called(op, o, other, after, how, outcome) ==
    /\ optionals' = after
    /\ written' = [x \in Objects |->
                      IF after[x] # optionals[x] \/ x = o
                      THEN how ELSE written[x]]
    /\ lastCall' = <<[op |-> op, self |-> o, other |-> other,
                      before |-> optionals, outcome |-> outcome]>>
    /\ UNCHANGED <<routerVars, fsmVars, callVars, messageVars, byteVars>>

\* A read of o has come back.
Read(op, o, outcome) ==
    /\ lastCall' = <<[op |-> op, self |-> o, other |-> o,
                      before |-> optionals, outcome |-> outcome]>>
    /\ UNCHANGED <<optionals, written>>
    /\ UNCHANGED <<routerVars, fsmVars, callVars, messageVars, byteVars>>

\* o = value
AssignValue(o, value) ==
    /\ o \in Objects
    /\ Called("operator=(value)", o, o,
              [optionals EXCEPT ![o] = ValueAssignment(@, value)],
              "value", Done)

\* o = other
AssignCopy(o, other) ==
    /\ o # other
    /\ Called("operator=(const Optional &)", o, other,
              [optionals EXCEPT ![o] = CopyAssignment(@, optionals[other])],
              "assignment", Done)

\* o = std::move(other)
AssignMove(o, other) ==
    /\ o # other
    /\ Called("operator=(Optional &&)", o, other,
              [optionals EXCEPT ![o] = MoveAssignment(@, optionals[other])],
              "assignment", Done)

\* o is constructed anew as a copy of other
ConstructCopy(o, other) ==
    /\ o # other
    /\ Called("Optional(const Optional &)", o, other,
              [optionals EXCEPT ![o] = CopyConstructor(optionals[other])],
              "construction", Done)

\* o.Swap(other)
CallSwap(o, other) ==
    /\ o # other
    /\ LET pair == Swap(optionals[o], optionals[other]) IN
       Called("Swap", o, other,
              [optionals EXCEPT ![o] = pair[1], ![other] = pair[2]],
              "Swap", Done)

\* o.Reset()
CallReset(o) ==
    /\ o \in Objects
    /\ Called("Reset", o, o, [optionals EXCEPT ![o] = Reset(@)],
              "Reset", Done)

\* o.Value()
CallValue(o) ==
    /\ o \in Objects
    /\ Read("Value", o, Value(optionals[o]))

\* *o
CallDereference(o) ==
    /\ o \in Objects
    /\ Read("operator*", o, Dereference(optionals[o]))

\* o->
CallArrow(o) ==
    /\ o \in Objects
    /\ \E outcome \in Arrow(optionals[o]) : Read("operator->", o, outcome)

NextOptional ==
    \/ \E o \in Objects, value \in Values : AssignValue(o, value)
    \/ \E o \in Objects, other \in Objects : AssignCopy(o, other)
    \/ \E o \in Objects, other \in Objects : AssignMove(o, other)
    \/ \E o \in Objects, other \in Objects : ConstructCopy(o, other)
    \/ \E o \in Objects, other \in Objects : CallSwap(o, other)
    \/ \E o \in Objects : CallReset(o)
    \/ \E o \in Objects : CallValue(o)
    \/ \E o \in Objects : CallDereference(o)
    \/ \E o \in Objects : CallArrow(o)

SpecOptional == Init /\ [][NextOptional]_vars

\* ====================================================== ServiceReadyState
\* The handlers below are functions of the machine's value m: a handler runs
\* its statements in order, each on the value the previous one left.

\* The machine as the handlers see it when an event arrives.
Machine ==
    [state |-> mCurrentState,
     mActivated |-> mActivated,
     mClientRequested |-> mClientRequested,
     timer |-> Timer,
     notified |-> FALSE]

\* helper::TtlTimer (the lease timer): Set / Reset start the countdown at ttl
TimerReset(m, ttl) ==
    [m EXCEPT !.timer.running = TRUE, !.timer.ttl = ttl]

\* TtlTimer::Cancel stops the countdown without firing
TimerCancel(m) ==
    [m EXCEPT !.timer.running = FALSE]

\* TtlTimer::SetExpirationCallback
SetExpirationCallback(m, callback) ==
    [m EXCEPT !.timer.mOnExpired = callback]

\* TtlTimer::ResetExpirationCallback
ResetExpirationCallback(m) ==
    [m EXCEPT !.timer.mOnExpired = "none"]

\* the callback is left registered on deactivation
Deactivate_KeepsCallback(m) ==
    [m EXCEPT !.mClientRequested = TRUE, !.mActivated = FALSE]

\* the flags reset first, the callback unregistered last
DeactivateSteps_FlagsFirst(m) ==
    LET m1 == [m EXCEPT !.mClientRequested = TRUE]
        m2 == [m1 EXCEPT !.mActivated = FALSE]
        m3 == ResetExpirationCallback(m2)
    IN <<m1, m2, m3>>

\* The statements of ServiceReadyState::Deactivate in their order: the value
\* of the object after each of them.
DeactivateSteps(m) ==
    LET m1 == ResetExpirationCallback(m)
        m2 == [m1 EXCEPT !.mClientRequested = TRUE]
        m3 == [m2 EXCEPT !.mActivated = FALSE]
    IN <<m1, m2, m3>>

\* ServiceReadyState::Deactivate
Deactivate(m) ==
    DeactivateSteps(m)[3]

\* MachineState::Transit called by ServiceReadyState: the state is
\* deactivated, the machine moves to nextState and activates it. The states
\* ServiceReadyState moves to (InitialWaitPhase, ServiceSeen, Stopped) do
\* nothing to the timer or to ServiceReadyState's flags when activated.
Transit(m, nextState) ==
    [Deactivate(m) EXCEPT !.state = nextState]

\* ServiceReadyState::onTimerExpired
onTimerExpired(m) ==
    Transit(m, "InitialWaitPhase")

\* the test of the flag inverted: if (mClientRequested)
Activate_InvertedTest(m) ==
    LET m1 == [m EXCEPT !.mActivated = TRUE]
        m2 == IF m1.mClientRequested THEN Transit(m1, "ServiceSeen") ELSE m1
        m3 == [m2 EXCEPT !.notified = TRUE]
    IN SetExpirationCallback(m3, "ServiceReadyState")

\* the redirection to ServiceSeen left out
Activate_NoRedirect(m) ==
    LET m1 == [m EXCEPT !.mActivated = TRUE]
        m3 == [m1 EXCEPT !.notified = TRUE]
    IN SetExpirationCallback(m3, "ServiceReadyState")

\* ServiceReadyState::Activate. The branch that transits to ServiceSeen does
\* not return: the notification and the registration of the callback follow
\* it as they follow the other branch.
Activate(m) ==
    LET m1 == [m EXCEPT !.mActivated = TRUE]
        m2 == IF ~m1.mClientRequested THEN Transit(m1, "ServiceSeen") ELSE m1
        m3 == [m2 EXCEPT !.notified = TRUE]
    IN SetExpirationCallback(m3, "ServiceReadyState")

\* the transition taken whether or not the state is activated
ServiceNotRequested_AlwaysTransits(m) ==
    Transit(m, "ServiceSeen")

\* the flag cleared, and the transition left out, when activated
ServiceNotRequested_OnlyClearsFlag(m) ==
    [m EXCEPT !.mClientRequested = FALSE]

\* ServiceReadyState::ServiceNotRequested
ServiceNotRequested(m) ==
    IF m.mActivated
    THEN Transit(m, "ServiceSeen")
    ELSE [m EXCEPT !.mClientRequested = FALSE]

\* the renewed offer handled as a first offer: the state is activated again
ServiceOffered_Reactivates(m, ttl) ==
    [TimerReset(m, ttl) EXCEPT !.notified = TRUE]

\* ServiceReadyState::ServiceOffered
ServiceOffered(m, ttl) ==
    TimerReset(m, ttl)

\* ServiceReadyState::ServiceStopped
ServiceStopped(m) ==
    Transit(TimerCancel(m), "Stopped")

\* ServiceReadyState::~ServiceReadyState
Destructor(m) ==
    ResetExpirationCallback(m)

\* The machine moves into ServiceReady: ServiceReadyState is activated.
EnterServiceReady(m) ==
    Activate([m EXCEPT !.state = "ServiceReady"])

\* std::condition_variable::notify_one: a consumer blocked in wait() is
\* released; with no consumer blocked the notification is gone.
NotifyOne(pc) ==
    IF pc = "waiting" THEN "proceeded" ELSE pc

\* An event has been handled: the machine takes the value the handler left,
\* and the consumer is released when the handler notified.
Handled(name, m, ttl) ==
    /\ mCurrentState' = m.state
    /\ mActivated' = m.mActivated
    /\ mClientRequested' = m.mClientRequested
    /\ Timer' = m.timer
    /\ notified' = m.notified
    /\ waiterPc' = IF m.notified THEN NotifyOne(waiterPc) ELSE waiterPc
    /\ lastEvent' = [name |-> name, from |-> mCurrentState,
                     requested |-> mClientRequested, ttl |-> ttl]
    /\ UNCHANGED <<routerVars, callVars, messageVars, byteVars, optionalVars>>

\* ------------------------------------------------------- discovery events

\* The machine is (re)started: Stopped -> InitialWaitPhase.
Start ==
    /\ ~destroyed
    /\ mCurrentState = "Stopped"
    /\ Handled("start", [Machine EXCEPT !.state = "InitialWaitPhase"], 0)
    /\ UNCHANGED <<timerPc, destroyed>>

\* InitialWaitPhase, offer received: the lease timer is started at the
\* offer's TTL when the client requested the service, and ServiceReady is
\* entered; its activation decides whether the machine stays there.
InitialWaitOffered(ttl) ==
    /\ ~destroyed
    /\ mCurrentState = "InitialWaitPhase"
    /\ Handled("offer",
               EnterServiceReady(IF mClientRequested
                                 THEN TimerReset(Machine, ttl)
                                 ELSE Machine),
               ttl)
    /\ UNCHANGED <<timerPc, destroyed>>

\* ServiceReady, renewed offer.
ReadyOffered(ttl) ==
    /\ ~destroyed
    /\ mCurrentState = "ServiceReady"
    /\ Handled("renew", ServiceOffered(Machine, ttl), ttl)
    /\ UNCHANGED <<timerPc, destroyed>>

\* ServiceSeen, the client requests the service: the lease timer is started
\* and ServiceReady is entered.
SeenRequested(ttl) ==
    /\ ~destroyed
    /\ mCurrentState = "ServiceSeen"
    /\ Handled("request", EnterServiceReady(TimerReset(Machine, ttl)), ttl)
    /\ UNCHANGED <<timerPc, destroyed>>

\* The client stops requesting the service, in any state.
ClientNotRequested ==
    /\ ~destroyed
    /\ Handled("notRequested", ServiceNotRequested(Machine), 0)
    /\ UNCHANGED <<timerPc, destroyed>>

\* ServiceReady, the service is withdrawn.
ReadyStopped ==
    /\ ~destroyed
    /\ mCurrentState = "ServiceReady"
    /\ Handled("withdraw", ServiceStopped(Machine), 0)
    /\ UNCHANGED <<timerPc, destroyed>>

\* ServiceSeen or InitialWaitPhase, the service is withdrawn: the timer is
\* cancelled and the machine stops.
OtherStopped ==
    /\ ~destroyed
    /\ mCurrentState \in {"ServiceSeen", "InitialWaitPhase"}
    /\ Handled("withdraw", [TimerCancel(Machine) EXCEPT !.state = "Stopped"], 0)
    /\ UNCHANGED <<timerPc, destroyed>>

\* The lease timer runs to its expiry and invokes the registered callback,
\* as one step of the machine.
TimerExpired ==
    /\ ~destroyed
    /\ timerPc = "idle"
    /\ Timer.running
    /\ Handled("expiry",
               IF Timer.mOnExpired = "ServiceReadyState"
               THEN onTimerExpired(TimerCancel(Machine))
               ELSE TimerCancel(Machine),
               Timer.ttl)
    /\ UNCHANGED <<timerPc, destroyed>>

\* A consumer waits for the service to be available: it proceeds at once
\* when the machine is in ServiceReady and blocks on the condition variable
\* otherwise. With the events delivered one at a time the test and the wait
\* are one step.
WaitForService ==
    /\ ~destroyed
    /\ waiterPc = "idle"
    /\ waiterPc' = IF mCurrentState = "ServiceReady"
                   THEN "proceeded" ELSE "waiting"
    /\ UNCHANGED <<mCurrentState, mActivated, mClientRequested, Timer,
                   notified, lastEvent, timerPc, destroyed>>
    /\ UNCHANGED <<routerVars, callVars, messageVars, byteVars, optionalVars>>

\* The consumer has used the service and may wait again.
WaiterReturns ==
    /\ waiterPc = "proceeded"
    /\ waiterPc' = "idle"
    /\ UNCHANGED <<mCurrentState, mActivated, mClientRequested, Timer,
                   notified, lastEvent, timerPc, destroyed>>
    /\ UNCHANGED <<routerVars, callVars, messageVars, byteVars, optionalVars>>

Next ==
    \/ Start
    \/ \E ttl \in Ttls : InitialWaitOffered(ttl)
    \/ \E ttl \in Ttls : ReadyOffered(ttl)
    \/ \E ttl \in Ttls : SeenRequested(ttl)
    \/ ClientNotRequested
    \/ ReadyStopped
    \/ OtherStopped
    \/ TimerExpired
    \/ WaitForService
    \/ WaiterReturns

Spec == Init /\ [][Next]_vars

\* ------------------------------------------- the timer thread, destruction
\* The lease timer counts down on its own thread and calls the callback from
\* there; ServiceReadyState holds no lock, so the discovery thread's handlers
\* and the destructor interleave with a callback that has been entered.

\* The countdown ends: the timer stops and, when a callback is registered,
\* the timer thread enters it.
TimerFires ==
    /\ timerPc = "idle"
    /\ Timer.running
    /\ Timer' = [Timer EXCEPT !.running = FALSE]
    /\ timerPc' = IF Timer.mOnExpired = "ServiceReadyState"
                  THEN "inCallback" ELSE "idle"
    /\ lastEvent' = [name |-> "fire", from |-> mCurrentState,
                     requested |-> mClientRequested, ttl |-> Timer.ttl]
    /\ UNCHANGED <<mCurrentState, mActivated, mClientRequested, notified,
                   destroyed, waiterPc>>
    /\ UNCHANGED <<routerVars, callVars, messageVars, byteVars, optionalVars>>

\* The timer thread runs the body of ServiceReadyState::onTimerExpired. On a
\* destroyed object the call reads and writes freed memory: it may act as on
\* a live object or leave nothing behind.
TimerCallback ==
    /\ timerPc = "inCallback"
    /\ timerPc' = "idle"
    /\ \/ Handled("onTimerExpired", onTimerExpired(Machine), Timer.ttl)
       \/ /\ destroyed
          /\ Handled("onTimerExpired", Machine, Timer.ttl)
    /\ UNCHANGED destroyed

\* ~ServiceReadyState(), run by the owner of the machine.
Destroy ==
    /\ ~destroyed
    /\ destroyed' = TRUE
    /\ Handled("destroy", Destructor(Machine), 0)
    /\ UNCHANGED timerPc

\* The consumer thread tests the machine's state. ServiceReadyState takes
\* no mutex around its flags, its transition and notify_one(), so the test
\* and the wait that follows it are two steps to the discovery and timer
\* threads.
WaiterChecks ==
    /\ ~destroyed
    /\ waiterPc = "idle"
    /\ waiterPc' = IF mCurrentState = "ServiceReady"
                   THEN "proceeded" ELSE "checked"
    /\ UNCHANGED <<mCurrentState, mActivated, mClientRequested, Timer,
                   notified, lastEvent, timerPc, destroyed>>
    /\ UNCHANGED <<routerVars, callVars, messageVars, byteVars, optionalVars>>

\* The consumer thread blocks in wait() on the condition variable.
WaiterBlocks ==
    /\ waiterPc = "checked"
    /\ waiterPc' = "waiting"
    /\ UNCHANGED <<mCurrentState, mActivated, mClientRequested, Timer,
                   notified, lastEvent, timerPc, destroyed>>
    /\ UNCHANGED <<routerVars, callVars, messageVars, byteVars, optionalVars>>

NextThreads ==
    \/ Start
    \/ \E ttl \in Ttls : InitialWaitOffered(ttl)
    \/ \E ttl \in Ttls : ReadyOffered(ttl)
    \/ \E ttl \in Ttls : SeenRequested(ttl)
    \/ ClientNotRequested
    \/ ReadyStopped
    \/ OtherStopped
    \/ TimerFires
    \/ TimerCallback
    \/ Destroy
    \/ WaiterChecks
    \/ WaiterBlocks
    \/ WaiterReturns

SpecThreads == Init /\ [][NextThreads]_vars

\* ================================================ claims: UdsServiceRouter

\* C1: a Route call for a sid that has no entry in the registry returns an
\* already completed future whose response is exactly the three bytes
\* [0x7F, sid, 0x11], and invokes no service's HandleMessage.
C1_UnregisteredSidGetsNegativeResponse ==
    \A i \in DOMAIN routed :
        ~routed[i].call.registered =>
            /\ routed[i].result.ready
            /\ routed[i].result.producer = 0
            /\ routed[i].result.responseData = <<127, routed[i].call.sid, 17>>
            /\ Len(routed[i].result.responseData) = 3
            /\ routed[i].invocations = <<>>

\* C1 witness: a call for an unregistered sid has completed while another
\* sid was registered and offered.
C1_Witness ==
    /\ routed # <<>>
    /\ ~routed[1].call.registered
    /\ routed[1].call.sid = 255
    /\ routed[1].result.responseData = <<127, 255, 17>>
    /\ \E sid \in DOMAIN mServices : mOffered[mServices[sid]]

\* C2: a Route call for a registered sid whose service is offered invokes
\* that service's HandleMessage exactly once, with the caller's request
\* bytes, metadata and cancellation handler, and returns the very future the
\* service handed back.
C2_OfferedSidIsForwardedUnchanged ==
    \A i \in DOMAIN routed :
        (routed[i].call.registered /\ routed[i].call.offered) =>
            /\ Len(routed[i].invocations) = 1
            /\ routed[i].invocations[1].service = routed[i].call.service
            /\ routed[i].invocations[1].requestData = routed[i].call.requestData
            /\ routed[i].invocations[1].metaInfo = routed[i].call.metaInfo
            /\ routed[i].invocations[1].cancellationHandler =
                   routed[i].call.cancellationHandler
            /\ routed[i].result = routed[i].returned[1]
            /\ routed[i].result.producer = routed[i].call.service

\* C2 witness: a forwarded call came back with a future that is not yet
\* completed.
C2_Witness ==
    /\ routed # <<>>
    /\ routed[1].call.registered
    /\ routed[1].call.offered
    /\ Len(routed[1].invocations) = 1
    /\ ~routed[1].result.ready

\* C3: a Route call for a registered sid whose service is not offered gets
\* the completed negative response [0x7F, sid, 0x11], the same value an
\* unregistered sid gets, and HandleMessage is not invoked.
C3_NotOfferedSidGetsNegativeResponse ==
    \A i \in DOMAIN routed :
        (routed[i].call.registered /\ ~routed[i].call.offered) =>
            /\ routed[i].result =
                   [producer |-> 0, ready |-> TRUE,
                    responseData |-> <<127, routed[i].call.sid, 17>>]
            /\ routed[i].invocations = <<>>

\* C3 witness: a call for a registered sid whose service was never offered
\* has completed.
C3_Witness ==
    /\ routed # <<>>
    /\ routed[1].call.registered
    /\ ~routed[1].call.offered
    /\ ~routed[1].call.withdrawn
    /\ routed[1].result.responseData = <<127, routed[1].call.sid, 17>>

\* C4: a Route call issued after its service was offered and then withdrawn
\* (and not offered again) gets the negative response [0x7F, sid, 0x11] and
\* never a future of the service, however many calls were forwarded before.
C4_WithdrawnServiceGetsNegativeResponse ==
    \A i \in DOMAIN routed :
        routed[i].call.withdrawn =>
            /\ routed[i].result.producer = 0
            /\ routed[i].result.ready
            /\ routed[i].result.responseData = <<127, routed[i].call.sid, 17>>
            /\ routed[i].returned = <<>>

\* C4 witness: the service had handled as many calls as the model allows
\* before it was withdrawn, and a later call got the negative response.
C4_Witness ==
    /\ routed # <<>>
    /\ routed[1].call.withdrawn
    /\ handleCount[routed[1].call.service] = MaxCalls
    /\ routed[1].result.producer = 0

\* ================================================ claims: ServiceReadyState

\* C5: in every state of the machine, whatever events it has handled, the
\* lease timer is running if and only if the current state is ServiceReady.
C5_TimerRunsIffServiceReady ==
    Timer.running <=> (mCurrentState = "ServiceReady")

\* C6: whenever the current state is not ServiceReady, no expiration
\* callback of ServiceReadyState is registered on the lease timer.
C6_NoCallbackOutsideServiceReady ==
    (mCurrentState # "ServiceReady") => (Timer.mOnExpired = "none")

\* C7: an offer with TTL t that meets the machine in InitialWaitPhase with
\* mClientRequested = TRUE leaves it in ServiceReady, the lease timer running
\* with duration t.
C7_RequestedOfferYieldsServiceReady ==
    (/\ lastEvent.name = "offer"
     /\ lastEvent.from = "InitialWaitPhase"
     /\ lastEvent.requested)
        => /\ mCurrentState = "ServiceReady"
           /\ Timer.running
           /\ Timer.ttl = lastEvent.ttl

\* C7 witness: such an offer, with the longest TTL, has just been handled.
C7_Witness ==
    /\ lastEvent = [name |-> "offer", from |-> "InitialWaitPhase",
                    requested |-> TRUE, ttl |-> MaxTtl]
    /\ mCurrentState = "ServiceReady"
    /\ Timer.ttl = MaxTtl

\* C8: an offer that meets the machine in InitialWaitPhase with
\* mClientRequested = FALSE leaves it in ServiceSeen (not in ServiceReady)
\* with no lease timer running.
C8_UnrequestedOfferYieldsServiceSeen ==
    (/\ lastEvent.name = "offer"
     /\ lastEvent.from = "InitialWaitPhase"
     /\ ~lastEvent.requested)
        => /\ mCurrentState = "ServiceSeen"
           /\ ~Timer.running

\* C8 witness: such an offer has just been handled.
C8_Witness ==
    /\ lastEvent.name = "offer"
    /\ lastEvent.from = "InitialWaitPhase"
    /\ ~lastEvent.requested
    /\ mCurrentState = "ServiceSeen"

\* C9: when the lease timer runs to its expiry in ServiceReady, the machine
\* is in InitialWaitPhase afterwards and no expiration callback is left
\* registered on the timer.
C9_ExpiryYieldsInitialWaitPhase ==
    (lastEvent.name = "expiry" /\ lastEvent.from = "ServiceReady")
        => /\ mCurrentState = "InitialWaitPhase"
           /\ Timer.mOnExpired = "none"

\* C9 witness: the timer has just expired in ServiceReady.
C9_Witness ==
    /\ lastEvent.name = "expiry"
    /\ lastEvent.from = "ServiceReady"
    /\ mCurrentState = "InitialWaitPhase"
    /\ ~Timer.running

\* C10: once the ServiceReadyState object is destroyed its callback is
\* unregistered and no expiration callback entered before the destruction
\* is executing or executes afterwards, also when the timer expires on the
\* timer thread while the object is being destroyed.
C10_NoCallbackAfterDestruction ==
    destroyed =>
        /\ Timer.mOnExpired = "none"
        /\ timerPc # "inCallback"
        /\ lastEvent.name # "onTimerExpired"

\* C11: the wake signal given on entry to ServiceReady reaches a consumer
\* that waits for the service, also one that starts to wait while the
\* discovery or timer thread makes the transition: no consumer is blocked on
\* the condition variable while the machine is in ServiceReady.
C11_NoLostWakeUp ==
    ~(waiterPc = "waiting" /\ mCurrentState = "ServiceReady")

\* C12: when the client requests the service while the machine is in
\* ServiceSeen, the machine enters ServiceReady, the lease timer is started
\* and a consumer blocked on availability is woken.
C12_RequestInServiceSeenYieldsServiceReady ==
    (lastEvent.name = "request" /\ lastEvent.from = "ServiceSeen")
        => /\ mCurrentState = "ServiceReady"
           /\ Timer.running
           /\ notified
           /\ waiterPc # "waiting"

\* C13: a renewed offer with TTL t handled in ServiceReady restarts the
\* lease timer at t and changes nothing else: the state, both flags and the
\* registered callback are as before, and no wake signal is given.
C13_RenewedOfferOnlyResetsTimer ==
    [][(lastEvent'.name = "renew" /\ lastEvent' # lastEvent) =>
          /\ mCurrentState = "ServiceReady"
          /\ mCurrentState' = "ServiceReady"
          /\ mActivated' = mActivated
          /\ mClientRequested' = mClientRequested
          /\ Timer'.mOnExpired = Timer.mOnExpired
          /\ Timer'.running
          /\ Timer'.ttl = lastEvent'.ttl
          /\ ~notified'
          /\ waiterPc' = waiterPc]_vars

\* C13 witness: a renewed offer has changed the running timer's duration.
C13_Witness ==
    /\ lastEvent.name = "renew"
    /\ lastEvent.ttl = MaxTtl
    /\ Timer = [running |-> TRUE, ttl |-> MaxTtl,
                mOnExpired |-> "ServiceReadyState"]
    /\ mCurrentState = "ServiceReady"
    /\ mActivated
    /\ ~notified

\* C14: a withdrawal handled in ServiceReady cancels the lease timer and
\* leaves the machine in Stopped; from then on the timer does not run, so it
\* cannot expire, and nothing but a restart changes the state.
C14_WithdrawalStopsUntilRestart ==
    [][/\ (lastEvent'.name = "withdraw" /\ lastEvent'.from = "ServiceReady"
           /\ lastEvent' # lastEvent)
          => (mCurrentState' = "Stopped" /\ ~Timer'.running)
       /\ (mCurrentState = "Stopped")
          => /\ ~Timer.running
             /\ ~Timer'.running
             /\ (mCurrentState' = "Stopped" \/ lastEvent'.name = "start")]_vars

\* C15: when the client stops requesting the service while ServiceReadyState
\* is activated, the machine goes to ServiceSeen and the expiration callback
\* is cleared from the lease timer.
C15_NotRequestedWhileActivatedYieldsServiceSeen ==
    (lastEvent.name = "notRequested" /\ lastEvent.from = "ServiceReady")
        => /\ mCurrentState = "ServiceSeen"
           /\ Timer.mOnExpired = "none"

\* C15 witness: the client has just stopped requesting in ServiceReady.
C15_Witness ==
    /\ lastEvent.name = "notRequested"
    /\ lastEvent.from = "ServiceReady"
    /\ mCurrentState = "ServiceSeen"
    /\ ~mActivated

\* C16: when the client stops requesting the service while ServiceReadyState
\* is not activated, mClientRequested becomes false and nothing else changes:
\* the current state, mActivated, the lease timer and its callback are as
\* before and no wake signal is given.
C16_NotRequestedWhileInactiveOnlyClearsFlag ==
    [][(lastEvent'.name = "notRequested" /\ lastEvent' # lastEvent
        /\ ~mActivated) =>
          /\ ~mClientRequested'
          /\ mCurrentState' = mCurrentState
          /\ mActivated' = mActivated
          /\ Timer' = Timer
          /\ ~notified'
          /\ waiterPc' = waiterPc]_vars

\* C16 witness: the flag was cleared in ServiceSeen while a consumer waits
\* and the lease timer runs.
C16_Witness ==
    /\ lastEvent.name = "notRequested"
    /\ lastEvent.from = "ServiceSeen"
    /\ mCurrentState = "ServiceSeen"
    /\ ~mClientRequested
    /\ waiterPc = "waiting"

\* C17: every exit from ServiceReady unregisters the expiration callback
\* before it resets a flag and leaves mClientRequested true and mActivated
\* false, whether ServiceReadyState is left by an event handled in
\* ServiceReady or by the redirection to ServiceSeen in its activation; so
\* mActivated is false in every state other than ServiceReady.
C17_ExitFromServiceReadyRestoresDefaults ==
    /\ (mCurrentState # "ServiceReady") => ~mActivated
    /\ (lastEvent.from = "ServiceReady" /\ mCurrentState # "ServiceReady")
          => (mClientRequested /\ ~mActivated)
    /\ (lastEvent.name \in {"offer", "request"} /\ mCurrentState = "ServiceSeen")
          => (mClientRequested /\ ~mActivated)
    /\ LET steps == DeactivateSteps(Machine)
       IN /\ \A i \in 1..Len(steps) :
                (\/ steps[i].mClientRequested # Machine.mClientRequested
                 \/ steps[i].mActivated # Machine.mActivated)
                   => steps[i].timer.mOnExpired = "none"
          /\ steps[Len(steps)].mClientRequested
          /\ ~steps[Len(steps)].mActivated

\* C17 witness: the lease has expired in ServiceReady, where the state was
\* activated with its callback registered, and the machine waits for a new
\* offer with the defaults restored.
C17_Witness ==
    /\ lastEvent.name = "expiry"
    /\ lastEvent.from = "ServiceReady"
    /\ mCurrentState = "InitialWaitPhase"
    /\ mClientRequested
    /\ ~mActivated
    /\ Timer.mOnExpired = "none"

\* C18: the transitions of one machine are strictly sequential: while the
\* timer thread is inside the expiration callback, no discovery event (start,
\* offer, renewed offer, request, end of the request, withdrawal) is handled
\* on the machine; the next event after the callback is entered is the
\* callback's own transition.
C18_TransitionsStrictlySequential ==
    [][(timerPc = "inCallback" /\ lastEvent' # lastEvent)
          => lastEvent'.name \in {"onTimerExpired", "destroy"}]_vars

\* C19: a Route call that overlaps the other thread's call, or a change of
\* the registry that does not touch its own SID and service, completes with
\* the result it would have produced alone: the future of the service that
\* was registered and offered for its SID when it was issued, or else the
\* router's negative response for its SID.
C19_OverlappingLookupsAreIndependent ==
    \A c \in Callers :
        (calls[c].pc = "done" /\ ~calls[c].ownChanged)
            => /\ calls[c].result[1].producer = calls[c].expected
               /\ (calls[c].expected = 0)
                     => calls[c].result[1] =
                            CompletedFuture(NegativeResponse(CallerSid(c)))

\* C20: IncrementSessionId on a session identifier v with 1 <= v < 65535
\* leaves v + 1 and returns false; on 65535 it leaves 1 and returns true; the
\* session identifier is never 0 after an increment.
C20_IncrementSessionIdWrapsToOne ==
    (incremented # <<>>) =>
        LET r == incremented[1] IN
        /\ mSessionId = r.after
        /\ mSessionId # 0
        /\ (1 <= r.before /\ r.before < 65535)
              => (r.after = r.before + 1 /\ ~r.wrapped)
        /\ (r.before = 65535) => (r.after = 1 /\ r.wrapped)

\* C20 witness: the message has just wrapped from 65535 to 1.
C20_Witness ==
    /\ incremented = <<[before |-> 65535, after |-> 1, wrapped |-> TRUE]>>
    /\ mSessionId = 1

\* C21 (as stated): after any sequence of constructions, SetSessionId and
\* IncrementSessionId calls, SessionId() is never 0.
C21_SessionIdNeverZero ==
    mSessionId # 0

\* C21 (amended): SessionId() is never 0 after IncrementSessionId; after a
\* construction or SetSessionId it is the identifier that was given, so it is
\* 0 only when the non-active identifier 0 was given.
C21_SessionIdZeroOnlyWhenGiven ==
    /\ (incremented # <<>>) => mSessionId # 0
    /\ (assigned # <<>>) => mSessionId = assigned[1].sessionId
    /\ (mSessionId = 0) => (assigned # <<>> /\ assigned[1].sessionId = 0)
    /\ (incremented = <<>>) # (assigned = <<>>)

\* C21 witness: the session identifier was set to 0 and is read as 0.
C21_Witness ==
    /\ assigned = <<[call |-> "SetSessionId", sessionId |-> 0]>>
    /\ mSessionId = 0
    /\ incremented = <<>>

\* C22: Inject appends the value to the end of the vector, most significant
\* byte first, and leaves the bytes that were in the vector as they were: a
\* 16-bit value gives exactly 2 bytes (0x1234 gives 0x12, 0x34), a 32-bit
\* value exactly 4.
C22_InjectAppendsBigEndian ==
    (injected # <<>>) =>
        LET r == injected[1]
            n == Len(r.before)
        IN /\ Len(vector) = n + r.width
           /\ SubSeq(vector, 1, n) = r.before
           /\ \A i \in 1..r.width : vector[n + i] \in 0..255
           /\ (r.width = 2) =>
                 /\ vector[n + 1] * 256 + vector[n + 2] = r.value[1]
                 /\ (r.value[1] = 4660) =>
                        (vector[n + 1] = 18 /\ vector[n + 2] = 52)
           /\ (r.width = 4) =>
                 /\ vector[n + 1] * 256 + vector[n + 2] = r.value[1]
                 /\ vector[n + 3] * 256 + vector[n + 4] = r.value[2]

\* C22 witness: 0x1234 has been injected after the four bytes of 0x12345678.
C22_Witness ==
    /\ vector = <<18, 52, 86, 120, 18, 52>>
    /\ injected = <<[width |-> 2, value |-> <<4660>>,
                     before |-> <<18, 52, 86, 120>>]>>

\* C23: a read of an Optional that holds no value, through Value(),
\* operator* or operator->, throws the runtime error and hands out no value;
\* an Optional that was default-constructed or Reset, or that gave its value
\* away in a Swap, holds no value.
C23_ReadingAnEmptyOptionalThrows ==
    /\ \A o \in Objects :
          ~HasValue(optionals[o]) =>
              /\ Value(optionals[o]) = Thrown
              /\ Dereference(optionals[o]) = Thrown
              /\ Arrow(optionals[o]) = {Thrown}
    /\ \A o \in Objects :
          (written[o] \in {"Optional", "Reset"}) => ~HasValue(optionals[o])
    /\ (lastCall # <<>>) =>
          LET r == lastCall[1] IN
          /\ (/\ r.op \in {"Value", "operator*", "operator->"}
              /\ ~HasValue(r.before[r.self]))
                => r.outcome = Thrown
          /\ (/\ r.op = "Swap"
              /\ HasValue(r.before[r.self])
              /\ ~HasValue(r.before[r.other]))
                => ~HasValue(optionals[r.self])

\* C23 witness: a holds no value after it gave its value to b in a Swap, and
\* a read of a through operator-> has thrown.
C23_Witness ==
    /\ written["a"] = "Swap"
    /\ ~HasValue(optionals["a"])
    /\ HasValue(optionals["b"])
    /\ lastCall # <<>>
    /\ lastCall[1].op = "operator->"
    /\ lastCall[1].self = "a"
    /\ lastCall[1].outcome = Thrown

\* C24: for an Optional that holds the value x, Value() and operator* return
\* x, operator-> returns a pointer to the held x, and none of them throws.
C24_ReadingAHeldValueReturnsIt ==
    (lastCall # <<>>) =>
        LET r == lastCall[1] IN
        (/\ r.op \in {"Value", "operator*", "operator->"}
         /\ HasValue(r.before[r.self]))
            => r.outcome = Returned(r.before[r.self].mValue)

\* C25: after a = b or a = std::move(b), a equals the value b had before:
\* a.HasValue() is what b.HasValue() was, a.Value() is the value b held, and
\* a equals an Optional copy-constructed from b.
C25_AssignmentCopiesTheOther ==
    (lastCall # <<>>) =>
        LET r == lastCall[1]
            a == optionals[r.self]
            b == r.before[r.other]
        IN (r.op \in {"operator=(const Optional &)", "operator=(Optional &&)"})
             => /\ HasValue(a) = HasValue(b)
                /\ HasValue(b) => Value(a) = Returned(b.mValue)
                /\ Equals(a, b)
                /\ Equals(a, CopyConstructor(b))

\* C26: the wake condition is signalled only by a handler that leaves the
\* machine in ServiceReady, and a consumer blocked on availability is
\* released only into ServiceReady: an activation of ServiceReadyState that
\* is redirected to ServiceSeen, mClientRequested being false, notifies
\* nobody.
C26_NotifiedOnlyInServiceReady ==
    [][/\ notified' => (mCurrentState' = "ServiceReady")
       /\ (waiterPc = "waiting" /\ waiterPc' = "proceeded")
             => (mCurrentState' = "ServiceReady")]_vars

\* C27: while the offers change concurrently with Route, HandleMessage is
\* never invoked on a service that is not offered at the moment of the
\* invocation: a withdrawal between the IsOffered check and the call keeps
\* the request from being forwarded.
C27_NoForwardToWithdrawnService ==
    [][\A c \in Callers :
          (calls[c].pc = "forward" /\ calls'[c].pc = "done")
              => IsOffered(calls[c].iterator)]_vars

====
